---- MODULE Spec2Model ----
(***************************************************************************)
(* GIUNet: pooling / unpooling core of the graph U-Net models.             *)
(*                                                                         *)
(* Tensors are sequences: a tensor with n rows is a sequence of length n   *)
(* and its row i (0-based, as in the Python source) is element i + 1.      *)
(* An edge_index tensor (2 x E) is the sequence of its E columns, each a   *)
(* pair <<src, dst>>.  A ratio is the pair <<p, q>> standing for p / q.    *)
(***************************************************************************)
EXTENDS Integers, Sequences, FiniteSets, TLC

VARIABLES
    \* ---- one pooling stage (top_k_pool, CentPool, SpectPool) ----
    pool_pc,        \* "idle" | "call" | "returned"
    edge_index,     \* input edge list
    h,              \* input node feature matrix (one row token per node)
    scores,         \* sigmoid output, one score level per node
    ratio,          \* pooling ratio <<p, q>>
    pool_ret,       \* what the called operation returned or raised
    \* ---- one unpooling call (SimpleUnpool, Unpool) ----
    un_pc,          \* "idle" | "call" | "returned"
    un_g,           \* adjacency argument g (only its shape and rows are read)
    un_h,           \* pooled feature matrix
    un_idx,         \* SelectionIndex argument
    un_ret,         \* returned matrix or raised error
    \* ---- all_centralities (models.py and methods.py variants) ----
    main_pc,        \* position of the parent process in all_centralities
    variant,        \* which file's all_centralities runs: "models" | "methods"
    worker,         \* worker[m]: "new" | "running" | "exited" | "crashed"
    joined,         \* number of processes the join loop has passed
    result_queue,   \* manager.Queue contents, in arrival order
    centralities,   \* models.py: the list; methods.py: centralities_dict
    cent_ret,       \* what all_centralities returned or raised
    \* ---- GIUNetSpect / GIUNetCent forward pass ----
    net_pc,         \* stage of the forward pass
    net             \* locals of forward()

poolVars == <<pool_pc, edge_index, h, scores, ratio, pool_ret>>
unpoolVars == <<un_pc, un_g, un_h, un_idx, un_ret>>
centVars == <<main_pc, variant, worker, joined, result_queue, centralities, cent_ret>>
netVars == <<net_pc, net>>
vars == <<poolVars, unpoolVars, centVars, netVars>>

--------------------------------------------------------------------------
(* Bounds of the model *)

\* largest node count of an input graph
MaxNodes == 3

(* Program constants *)

\* max(2, ...) in top_k_pool
MinKeep == 2
\* norm_g adds 1e-8 = 1 / EpsInv to every row sum
EpsInv == 100000000

\* adjacency_matrix(edge_index) called without num_nodes
None == -1

--------------------------------------------------------------------------
(* Generic helpers *)

Range(n) == 0 .. (n - 1)
At(t, i) == t[i + 1]
Max(a, b) == IF a >= b THEN a ELSE b
Min(a, b) == IF a <= b THEN a ELSE b

\* the same tensor with every element computed once (a sequence value)
Vec(s) == s \o <<>>
Mat(m) == Vec([i \in 1 .. Len(m) |-> Vec(m[i])])

RECURSIVE SumSeq(_)
SumSeq(s) == IF s = <<>> THEN 0 ELSE Head(s) + SumSeq(Tail(s))

SeqRange(s) == {s[j] : j \in 1 .. Len(s)}
IsDistinct(s) == \A a, b \in 1 .. Len(s) : a # b => s[a] # s[b]

\* the ascending sequence of a finite set of lexicographically ordered pairs
PairLess(a, b) == a[1] < b[1] \/ (a[1] = b[1] /\ a[2] < b[2])
RECURSIVE SortPairs(_)
SortPairs(S) ==
    IF S = {} THEN <<>>
    ELSE LET m == CHOOSE x \in S : \A y \in S \ {x} : PairLess(x, y)
         IN <<m>> \o SortPairs(S \ {m})

--------------------------------------------------------------------------
(* GraphBuilder *)

EndPoints(ei) == {ei[j][1] : j \in 1 .. Len(ei)} \cup {ei[j][2] : j \in 1 .. Len(ei)}

\* edge_index_to_nx_graph: the nodes range(num_nodes) plus every endpoint
\* add_edges_from introduces; an undirected simple graph
edge_index_to_nx_graph(ei, num_nodes) ==
    [nodes |-> Range(num_nodes) \cup EndPoints(ei),
     edges |-> {{ei[j][1], ei[j][2]} : j \in 1 .. Len(ei)}]

\* num_nodes of adjacency_matrix: the argument, or edge_index.max() + 1
AdjNumNodes(ei, num_nodes) ==
    IF num_nodes # None THEN num_nodes
    ELSE (CHOOSE m \in EndPoints(ei) : \A e \in EndPoints(ei) : e <= m) + 1

\* what adjacency_matrix raises: max() of an empty tensor, or an index
\* outside the allocated matrix ("ok" when it returns)
AdjStatus(ei, num_nodes) ==
    IF num_nodes = None /\ Len(ei) = 0 THEN "RuntimeError"
    ELSE IF \E e \in EndPoints(ei) : e >= AdjNumNodes(ei, num_nodes) THEN "IndexError"
    ELSE "ok"

\* adjacency_matrix: zeros, then 1 at every (src, dst) of the edge list
adjacency_matrix(ei, num_nodes) ==
    LET n == AdjNumNodes(ei, num_nodes)
        es == {ei[c] : c \in 1 .. Len(ei)}
    IN Mat([i \in 1 .. n |-> [j \in 1 .. n |->
          IF <<i - 1, j - 1>> \in es THEN 1 ELSE 0]])

--------------------------------------------------------------------------
(* TopKPool *)

\* int(ratio * num_nodes): the product truncated toward zero
Trunc(r, n) == (r[1] * n) \div r[2]

\* round(ratio * num_nodes), ties to the even neighbour as Python's round
Round(r, n) ==
    LET fl == (r[1] * n) \div r[2]
        twice == 2 * ((r[1] * n) % r[2])
    IN IF twice > r[2] \/ (twice = r[2] /\ fl % 2 = 1) THEN fl + 1 ELSE fl

\* a top_k_pool that rounds the product instead of truncating it
TopKCountRounded(r, n) == Max(MinKeep, Round(r, n))

\* the number of indices top_k_pool asks torch.topk for
TopKCount(r, n) == Max(MinKeep, Trunc(r, n))

\* torch.topk(scores, k): every sequence of k distinct positions in
\* descending score order that leaves no higher score out; the order
\* among equal scores is the library's choice
topk(sc, k) ==
    {s \in [1 .. k -> Range(Len(sc))] :
        /\ IsDistinct(s)
        /\ \A a \in 1 .. (k - 1) : At(sc, s[a]) >= At(sc, s[a + 1])
        /\ \A u \in Range(Len(sc)) \ SeqRange(s) :
              \A a \in 1 .. k : At(sc, u) <= At(sc, s[a])}

\* g.bool().float()
BoolMat(m) ==
    Mat([i \in 1 .. Len(m) |-> [j \in 1 .. Len(m) |-> IF m[i][j] # 0 THEN 1 ELSE 0]])

MatMul(a, b) ==
    Mat([i \in 1 .. Len(a) |-> [j \in 1 .. Len(a) |->
        SumSeq(Vec([c \in 1 .. Len(a) |-> a[i][c] * b[c][j]]))]])

\* matmul(g, matmul(g, g)).bool().float() of the 0/1 adjacency
Reach3(g) == BoolMat(MatMul(BoolMat(g), MatMul(BoolMat(g), BoolMat(g))))

\* un_g[idx, :][:, idx]
SubMatrix(m, idx) ==
    Mat([a \in 1 .. Len(idx) |-> [b \in 1 .. Len(idx) |-> At(At(m, idx[a]), idx[b])]])

\* a norm_g that leaves the epsilon out of the divisor
norm_g_no_eps(g) ==
    Mat([i \in 1 .. Len(g) |-> [j \in 1 .. Len(g[i]) |-> <<g[i][j], SumSeq(g[i])>>]])

\* norm_g: every entry divided by (row sum + 1e-8); an entry is the exact
\* fraction <<numerator, denominator>>
norm_g(g) ==
    Mat([i \in 1 .. Len(g) |-> [j \in 1 .. Len(g[i]) |->
        <<g[i][j] * EpsInv, SumSeq(g[i]) * EpsInv + 1>>]])

\* the outcomes of torch.topk(scores, k) inside top_k_pool; it raises when
\* k exceeds the number of scores (the one "choice" <<>> stands for that)
TopKChoices(sc, r, n) ==
    IF TopKCount(r, n) > Len(sc) THEN {<<>>} ELSE topk(sc, TopKCount(r, n))

\* top_k_pool, for the choice idx of torch.topk.  new_h row j is the pair
\* <<h[idx[j]], score of idx[j]>>: the row scaled by its own score.  un_g is
\* the local of that name: the selected subgraph before norm_g.
top_k_pool(sc, ei, hh, r, idx) ==
    IF TopKCount(r, Len(hh)) > Len(sc) THEN [status |-> "RuntimeError"]
    ELSE IF AdjStatus(ei, Len(hh)) # "ok" THEN [status |-> AdjStatus(ei, Len(hh))]
    ELSE LET un == SubMatrix(Reach3(adjacency_matrix(ei, Len(hh))), idx)
         IN [status |-> "ok",
             g |-> norm_g(un),
             un_g |-> un,
             h |-> [j \in 1 .. Len(idx) |-> <<At(hh, idx[j]), At(sc, idx[j])>>],
             idx |-> idx]

\* edge_index[:, idx]: the columns of edge_index numbered by idx
SelectColumns(ei, idx) == [j \in 1 .. Len(idx) |-> At(ei, idx[j])]

\* CentPool.forward, for the choice idx of torch.topk.  The scores are the
\* sigmoid of learned projections and enter as given values.  The matrix of
\* all_centralities has one row per node of G, and torch.cat raises when
\* that differs from the rows of h.
CentPool_forward(sc, ei, hh, r, idx) ==
    IF Cardinality(edge_index_to_nx_graph(ei, Len(hh)).nodes) # Len(hh)
    THEN [status |-> "RuntimeError"]
    ELSE LET t == top_k_pool(sc, ei, hh, r, idx)
         IN IF t.status # "ok" THEN t
            ELSE IF \E j \in 1 .. Len(t.idx) : t.idx[j] >= Len(ei)
                 THEN [status |-> "IndexError"]
                 ELSE [status |-> "ok", g |-> t.g, un_g |-> t.un_g, h |-> t.h,
                       idx |-> t.idx, edge_index |-> SelectColumns(ei, t.idx)]

--------------------------------------------------------------------------
(* StructuralFeatureExtractor, spectral variant *)

\* d = torch.sum(adjacency_matrix, dim=1)
Degree(a, i) == SumSeq(a[i])

\* normalized_laplacian applied to an adjacency tensor, in IEEE arithmetic.
\* 1 / sqrt(0) is inf and raises nothing; inf * 0 is nan.  A finite entry
\* is kept exactly as eye - num / (2 * sqrt(rad)), the value of
\* 0.5 * (Ln + Ln.T) with Ln[i][j] = eye - A[i][j] / sqrt(d_i * d_j).
LaplacianEntry(a, i, j) ==
    LET ln(r, c) ==
            IF Degree(a, r) = 0 THEN "nan"                  \* row r of Dinv_sqrt @ A
            ELSE IF Degree(a, c) = 0
                 THEN (IF a[r][c] = 0 THEN "nan" ELSE "-inf")
                 ELSE "fin"
    IN IF ln(i, j) = "nan" \/ ln(j, i) = "nan" THEN [kind |-> "nan"]
       ELSE IF ln(i, j) = "-inf" \/ ln(j, i) = "-inf" THEN [kind |-> "-inf"]
       ELSE [kind |-> "fin", eye |-> IF i = j THEN 1 ELSE 0,
             num |-> a[i][j] + a[j][i], rad |-> Degree(a, i) * Degree(a, j)]

normalized_laplacian(a) ==
    [status |-> "ok",
     Ln |-> [i \in 1 .. Len(a) |-> [j \in 1 .. Len(a) |-> LaplacianEntry(a, i, j)]]]

\* SpectPool.forward: line 49 hands the networkx graph G to
\* normalized_laplacian, whose first statement reads adjacency_matrix.shape;
\* a networkx Graph has no such attribute, so the call raises for every input
SpectPool_forward(sc, ei, hh, r) ==
    LET G == edge_index_to_nx_graph(ei, Len(hh))
    IN [status |-> "AttributeError", nodes |-> Cardinality(G.nodes)]

--------------------------------------------------------------------------
(* Inputs of a pooling stage *)

UndirectedPairs(n) == {p \in Range(n) \X Range(n) : p[1] < p[2]}

\* the edge lists of the undirected simple graphs on n nodes: each edge in
\* both directions, columns in ascending order
EdgeLists(n) ==
    {SortPairs(S \cup {<<p[2], p[1]>> : p \in S}) : S \in SUBSET UndirectedPairs(n)}

\* the configured ratio 0.8 of both models and other ratios in (0, 1]
Ratios == {<<4, 5>>, <<1, 2>>, <<9, 10>>, <<1, 1>>}

\* score levels: level v stands for the sigmoid output v / 3
ScoreLevels == {1, 2}

\* one row token per node
Features(n) == [i \in 1 .. n |-> 10 + i]

PoolIdle ==
    /\ pool_pc = "idle" /\ edge_index = <<>> /\ h = <<>> /\ scores = <<>>
    /\ ratio = <<1, 1>> /\ pool_ret = [op |-> "none"]
UnpoolIdle ==
    /\ un_pc = "idle" /\ un_g = <<>> /\ un_h = <<>> /\ un_idx = <<>>
    /\ un_ret = [op |-> "none"]
CentIdle ==
    /\ main_pc = "idle" /\ variant = "none" /\ worker = <<>> /\ joined = 0
    /\ result_queue = <<>> /\ centralities = <<>> /\ cent_ret = [status |-> "none"]
NetIdle == net_pc = "idle" /\ net = [model |-> "none"]

InitPool ==
    /\ pool_pc = "call"
    /\ \E n \in 1 .. MaxNodes :
          /\ edge_index \in EdgeLists(n)
          /\ h = Features(n)
          /\ scores \in [1 .. n -> ScoreLevels]
    /\ ratio \in Ratios
    /\ pool_ret = [op |-> "none"]
    /\ UnpoolIdle /\ CentIdle /\ NetIdle

Returns(op, out) ==
    /\ pool_pc = "call"
    /\ pool_pc' = "returned"
    /\ pool_ret' = [op |-> op, out |-> out]
    /\ UNCHANGED <<edge_index, h, scores, ratio, unpoolVars, centVars, netVars>>

TopKPoolCall ==
    /\ pool_pc = "call"
    /\ \E idx \in TopKChoices(scores, ratio, Len(h)) :
        Returns("top_k_pool", top_k_pool(scores, edge_index, h, ratio, idx))

CentPoolCall ==
    /\ pool_pc = "call"
    /\ \E idx \in TopKChoices(scores, ratio, Len(h)) :
        Returns("CentPool.forward", CentPool_forward(scores, edge_index, h, ratio, idx))

SpectPoolCall ==
    Returns("SpectPool.forward", SpectPool_forward(scores, edge_index, h, ratio))

NormalizedLaplacianCall ==
    Returns("normalized_laplacian",
            normalized_laplacian(adjacency_matrix(edge_index, Len(h))))

NextPool == TopKPoolCall \/ CentPoolCall \/ SpectPoolCall \/ NormalizedLaplacianCall

SpecPool == InitPool /\ [][NextPool]_vars

--------------------------------------------------------------------------
(* Unpool *)

\* a 0/1 float matrix in the exact-fraction form that norm_g's results have
Exact(m) == Mat([i \in 1 .. Len(m) |-> [j \in 1 .. Len(m[i]) |-> <<m[i][j], 1>>]])

\* a tensor index: negative values count from the end, as torch indexing does
Wrap(i, n) == IF i < 0 THEN i + n ELSE i
IndexOk(i, n) == -n <= i /\ i < n

\* the positions of idx that new_h[idx] = h writes to row r
Writers(idx, n, r) == {j \in 1 .. Len(idx) : Wrap(idx[j], n) = r}

\* what new_h[idx] = h raises ("ok" when it assigns): an index outside the
\* n rows, or a value whose rows neither match idx nor broadcast
ScatterStatus(n, hh, idx) ==
    IF \E j \in 1 .. Len(idx) : ~IndexOk(idx[j], n) THEN "IndexError"
    ELSE IF Len(hh) # Len(idx) /\ Len(hh) # 1 THEN "RuntimeError"
    ELSE "ok"

\* the sources new_h[idx] = h can take for each row: w[r] is the position of
\* idx whose row lands in row r (when several positions address the same
\* row, which one is kept is the library's choice), 0 for a row not written
ScatterChoices(n, idx) ==
    {w \in [1 .. n -> 0 .. Len(idx)] :
        \A r \in 1 .. n :
            IF Writers(idx, n, r - 1) = {} THEN w[r] = 0
            ELSE w[r] \in Writers(idx, n, r - 1)}

\* h.new_zeros([n, F]) followed by new_h[idx] = h, for the choice w; the
\* zero row is 0
Scatter(n, hh, w) ==
    [r \in 1 .. n |-> IF w[r] = 0 THEN 0
                      ELSE IF Len(hh) = 1 THEN hh[1] ELSE hh[w[r]]]

\* a scatter that writes pooled row j to row j instead of row idx[j]
SimpleUnpoolInPlace(g, hh, idx, w) ==
    IF ScatterStatus(Len(g), hh, idx) # "ok"
    THEN [status |-> ScatterStatus(Len(g), hh, idx)]
    ELSE [status |-> "ok",
          new_h |-> [r \in 1 .. Len(g) |-> IF r <= Len(hh) THEN hh[r] ELSE 0]]

\* SimpleUnpool.forward, for the choice w of the scatter
SimpleUnpool_forward(g, hh, idx, w) ==
    IF ScatterStatus(Len(g), hh, idx) # "ok"
    THEN [status |-> ScatterStatus(Len(g), hh, idx)]
    ELSE [status |-> "ok", new_h |-> Scatter(Len(g), hh, w)]

\* idx_prime of Unpool.forward: the elements of idx that are NOT in
\* range(g.shape[0]), in the order of idx
idx_prime(g, idx) == SelectSeq(idx, LAMBDA i : i \notin Range(Len(g)))

\* weighted_mean of Unpool.forward for row i: the sum over idx of
\* g[i][i] * idx / g[i].sum().  The entries of a row of g share their
\* denominator.  A zero row sum divides by zero: inf or nan, times the zero
\* entry g[i][i], is nan.
weighted_mean(g, idx, i) ==
    LET row == At(g, Wrap(i, Len(g)))
        rowsum == SumSeq([j \in 1 .. Len(row) |-> row[j][1]])
        gii == At(row, Wrap(i, Len(g)))[1]
    IN IF rowsum = 0 THEN "nan" ELSE <<gii * SumSeq(idx), rowsum>>

\* the loop of Unpool.forward over the sequence p of remaining idx_prime
\* elements: new_h[i] = weighted_mean * h assigns the k rows of h to ONE
\* row, which raises unless h has a single row
RECURSIVE Synthesize(_, _, _, _, _)
Synthesize(g, hh, idx, p, new_h) ==
    IF p = <<>> THEN [status |-> "ok", new_h |-> new_h]
    ELSE IF Len(hh) # 1 THEN [status |-> "RuntimeError"]
    ELSE Synthesize(g, hh, idx, Tail(p),
            [new_h EXCEPT ![Wrap(Head(p), Len(g)) + 1] =
                [weighted_mean |-> weighted_mean(g, idx, Head(p)), h |-> hh[1]]])

\* Unpool.forward (the structural variant), for the choice w of the scatter
Unpool_forward(g, hh, idx, w) ==
    IF ScatterStatus(Len(g), hh, idx) # "ok"
    THEN [status |-> ScatterStatus(Len(g), hh, idx)]
    ELSE LET r == Synthesize(g, hh, idx, idx_prime(g, idx), Scatter(Len(g), hh, w))
         IN IF r.status # "ok" THEN r
            ELSE [status |-> "ok", new_h |-> r.new_h, idx_prime |-> idx_prime(g, idx)]

--------------------------------------------------------------------------
(* Inputs of an unpooling call *)

\* largest number of pooled rows handed to an unpooling call
MaxPooled == 2

\* largest number of undirected edges of the graph whose adjacency is handed
\* to an unpooling call
MaxAdjEdges == 1

\* pooled rows: one token per row
PooledFeatures(k) == [j \in 1 .. k |-> 20 + j]

\* index sequences over the n rows and one position beyond them on each side
IndexSeqs(n) ==
    UNION {[1 .. k -> (0 - n - 1) .. n] : k \in 1 .. Min(n, MaxPooled)}

InitUnpool ==
    /\ un_pc = "call"
    /\ \E n \in 1 .. MaxNodes :
          /\ un_g \in {Exact(adjacency_matrix(ei, n)) :
                        ei \in {e \in EdgeLists(n) : Len(e) <= 2 * MaxAdjEdges}}
          /\ un_idx \in IndexSeqs(n)
    /\ un_h = PooledFeatures(Len(un_idx))
    /\ un_ret = [op |-> "none"]
    /\ PoolIdle /\ CentIdle /\ NetIdle

UnpoolReturns(op, out) ==
    /\ un_pc = "call"
    /\ un_pc' = "returned"
    /\ un_ret' = [op |-> op, out |-> out]
    /\ UNCHANGED <<un_g, un_h, un_idx, poolVars, centVars, netVars>>

\* the choices of the scatter; a single dummy choice when it raises
UnpoolChoices(g, hh, idx) ==
    IF ScatterStatus(Len(g), hh, idx) # "ok" THEN {<<>>}
    ELSE ScatterChoices(Len(g), idx)

SimpleUnpoolCall ==
    /\ un_pc = "call"
    /\ \E w \in UnpoolChoices(un_g, un_h, un_idx) :
        UnpoolReturns("SimpleUnpool", SimpleUnpool_forward(un_g, un_h, un_idx, w))

UnpoolCall ==
    /\ un_pc = "call"
    /\ \E w \in UnpoolChoices(un_g, un_h, un_idx) :
        UnpoolReturns("Unpool", Unpool_forward(un_g, un_h, un_idx, w))

NextUnpool == SimpleUnpoolCall \/ UnpoolCall

SpecUnpool == InitUnpool /\ [][NextUnpool]_vars

--------------------------------------------------------------------------
(* StructuralFeatureExtractor, centrality variant: all_centralities *)

\* centrality_methods of the two files, in their configured order
centrality_methods(v) ==
    IF v = "models"
    THEN <<"closeness_centrality", "degree_centrality",
           "betweenness_centrality", "load_centrality">>
    ELSE <<"closeness_centrality", "degree_centrality", "betweenness_centrality",
           "load_centrality", "subgraph_centrality", "harmonic_centrality">>

\* in_features of CentPool's structure_proj = nn.Linear(4, 1)
StructureInFeatures == 4

\* the column a worker computes for its metric: the networkx values, as
\* fractions <<num, den>>, on the fixed graph 0 - 1 - 2 (a path).  Betweenness
\* and load agree on it; subgraph centrality, 1/2 + cosh(sqrt 2)/2 and
\* cosh(sqrt 2), is kept to four decimals.
Column(name) ==
    CASE name = "closeness_centrality" -> <<<<2, 3>>, <<1, 1>>, <<2, 3>>>>
      [] name = "degree_centrality" -> <<<<1, 2>>, <<1, 1>>, <<1, 2>>>>
      [] name = "betweenness_centrality" -> <<<<0, 1>>, <<1, 1>>, <<0, 1>>>>
      [] name = "load_centrality" -> <<<<0, 1>>, <<1, 1>>, <<0, 1>>>>
      [] name = "subgraph_centrality" -> <<<<15891, 10000>>, <<21782, 10000>>, <<15891, 10000>>>>
      [] name = "harmonic_centrality" -> <<<<3, 2>>, <<2, 1>>, <<3, 2>>>>

\* what calculate_centrality puts on the queue: models.py the tensor alone,
\* methods.py the pair (index, centrality)
Payload(v, m) ==
    IF v = "models" THEN Column(centrality_methods(v)[m])
    ELSE <<m - 1, Column(centrality_methods(v)[m])>>

InitCent ==
    /\ main_pc = "start"
    /\ variant \in {"models", "methods"}
    /\ worker = [m \in 1 .. Len(centrality_methods(variant)) |-> "new"]
    /\ joined = 0
    /\ result_queue = <<>>
    /\ centralities = <<>>
    /\ cent_ret = [status |-> "none"]
    /\ PoolIdle /\ UnpoolIdle /\ NetIdle

\* for method in centrality_methods: Process(...); process.start()
StartProcess ==
    /\ main_pc = "start"
    /\ \E m \in DOMAIN worker :
          /\ worker[m] = "new"
          /\ \A o \in 1 .. (m - 1) : worker[o] # "new"
          /\ worker' = [worker EXCEPT ![m] = "running"]
          /\ main_pc' = IF m = Len(worker) THEN "join" ELSE "start"
    /\ UNCHANGED <<variant, joined, result_queue, centralities, cent_ret,
                   poolVars, unpoolVars, netVars>>

\* calculate_centrality in a worker process: compute, put, exit
WorkerPut(m) ==
    /\ worker[m] = "running"
    /\ result_queue' = Append(result_queue, Payload(variant, m))
    /\ worker' = [worker EXCEPT ![m] = "exited"]
    /\ UNCHANGED <<main_pc, variant, joined, centralities, cent_ret,
                   poolVars, unpoolVars, netVars>>

\* a worker process that dies before its put (an exception in the metric,
\* a kill): nothing reaches the queue and the parent is not told
WorkerCrash(m) ==
    /\ worker[m] = "running"
    /\ worker' = [worker EXCEPT ![m] = "crashed"]
    /\ UNCHANGED <<main_pc, variant, joined, result_queue, centralities, cent_ret,
                   poolVars, unpoolVars, netVars>>

\* a process.join() that returns without waiting for its process to end
JoinNoWait ==
    /\ main_pc = "join"
    /\ joined' = joined + 1
    /\ main_pc' = IF joined + 1 = Len(worker) THEN "drain" ELSE "join"
    /\ UNCHANGED <<variant, worker, result_queue, centralities, cent_ret,
                   poolVars, unpoolVars, netVars>>

\* for process in processes: process.join() -- returns once that process
\* has terminated, whatever its exit code
JoinProcess ==
    /\ main_pc = "join"
    /\ worker[joined + 1] \in {"exited", "crashed"}
    /\ joined' = joined + 1
    /\ main_pc' = IF joined + 1 = Len(worker) THEN "drain" ELSE "join"
    /\ UNCHANGED <<variant, worker, result_queue, centralities, cent_ret,
                   poolVars, unpoolVars, netVars>>

\* while not result_queue.empty(): one get.  models.py appends what arrives;
\* methods.py stores the centrality under the name of its index
DrainOne ==
    /\ main_pc = "drain"
    /\ result_queue # <<>>
    /\ result_queue' = Tail(result_queue)
    /\ centralities' =
          IF variant = "models" THEN Append(centralities, Head(result_queue))
          ELSE LET index == Head(result_queue)[1]
                   name == At(centrality_methods(variant), index)
               IN [o \in (DOMAIN centralities) \cup {name} |->
                      IF o = name THEN Head(result_queue)[2] ELSE centralities[o]]
    /\ UNCHANGED <<main_pc, variant, worker, joined, cent_ret,
                   poolVars, unpoolVars, netVars>>

\* the columns in the order torch.stack receives them
\* (methods.py: the comprehension over centrality_methods)
StackInput(v, c) ==
    IF v = "models" THEN c
    ELSE [j \in 1 .. Len(centrality_methods(v)) |-> c[centrality_methods(v)[j]]]

\* the queue is empty: build the list and torch.stack(centralities, dim=1).
\* methods.py raises KeyError on a name no worker delivered; torch.stack
\* raises on an empty list
StackColumns ==
    /\ main_pc = "drain"
    /\ result_queue = <<>>
    /\ main_pc' = "returned"
    /\ cent_ret' =
          IF variant = "methods" /\
             \E j \in 1 .. Len(centrality_methods(variant)) :
                 centrality_methods(variant)[j] \notin DOMAIN centralities
          THEN [status |-> "KeyError"]
          ELSE IF StackInput(variant, centralities) = <<>>
               THEN [status |-> "RuntimeError"]
               ELSE [status |-> "ok", C |-> StackInput(variant, centralities)]
    /\ UNCHANGED <<variant, worker, joined, result_queue, centralities,
                   poolVars, unpoolVars, netVars>>

\* CentPool.forward line 27: structure_proj(C), a Linear with 4 input
\* features, raises unless C has 4 columns; an exception of all_centralities
\* propagates
StructureProj ==
    /\ main_pc = "returned"
    /\ variant = "models"
    /\ main_pc' = IF cent_ret.status = "ok" /\ Len(cent_ret.C) = StructureInFeatures
                  THEN "scored" ELSE "failed"
    /\ UNCHANGED <<variant, worker, joined, result_queue, centralities, cent_ret,
                   poolVars, unpoolVars, netVars>>

NextCent ==
    \/ StartProcess
    \/ \E m \in DOMAIN worker : WorkerPut(m)
    \/ \E m \in DOMAIN worker : WorkerCrash(m)
    \/ JoinProcess
    \/ DrainOne
    \/ StackColumns
    \/ StructureProj

SpecCent == InitCent /\ [][NextCent]_vars

--------------------------------------------------------------------------
(* EncoderDecoderOrchestrator: GIUNetSpect.forward and GIUNetCent.forward *)

\* ratio=0.8 of pool1 and pool2
PoolRatio == <<4, 5>>

\* what a GINConv raises: its gather and scatter index the rows of x with
\* the endpoints of the edge list
ConvStatus(x, ei) ==
    IF \E e \in EndPoints(ei) : e >= Len(x) THEN "IndexError" ELSE "ok"

\* a GINConv, and the final Linear: one new row per row of x (the layers'
\* arithmetic is the runtime's; a zero row does not stay zero through a
\* layer with a bias)
GINConv(x, ei) == Features(Len(x))
Linear(x) == Features(Len(x))

\* the unpool layer of each model: GIUNetSpect has SimpleUnpool, GIUNetCent
\* has Unpool
UnpoolOf(model, g, hh, idx, w) ==
    IF model = "GIUNetSpect" THEN SimpleUnpool_forward(g, hh, idx, w)
    ELSE Unpool_forward(g, hh, idx, w)

\* an unpool2 that is handed the CoarsenedAdjacency of its own depth
unpool2_g_own_depth(n) == n.g2

\* the adjacency handed to unpool2 (line 220, 288): g1, of pool1
unpool2_g(n) == n.g1

\* the adjacency handed to unpool1 (line 223, 291): rebuilt from the input
\* edge list, without num_nodes
unpool1_g_status(n) == AdjStatus(n.edge_index, None)
unpool1_g(n) == Exact(adjacency_matrix(n.edge_index, None))

\* the locals of forward() before its first statement; batch is the length
\* of data.batch, one entry per node
InitNet ==
    /\ net_pc = "conv1"
    /\ \E n \in 1 .. MaxNodes, m \in {"GIUNetSpect", "GIUNetCent"} :
        \E ei \in EdgeLists(n) :
          net = [model |-> m, x |-> Features(n), edge_index |-> ei, batch |-> n,
                 g1 |-> <<>>, idx1 |-> <<>>, edge_index1 |-> <<>>,
                 g2 |-> <<>>, idx2 |-> <<>>, edge_index2 |-> <<>>,
                 unpool2 |-> <<>>, unpool1 |-> <<>>, error |-> "none"]
    /\ PoolIdle /\ UnpoolIdle /\ CentIdle

\* a statement of forward(): it moves to the next statement, or its
\* exception ends the pass
Step(from, to, status, n) ==
    /\ net_pc = from
    /\ IF status = "ok"
       THEN net_pc' = to /\ net' = n
       ELSE net_pc' = "failed" /\ net' = [net EXCEPT !.error = status]
    /\ UNCHANGED <<poolVars, unpoolVars, centVars>>

\* x1 = F.relu(self.conv1(x, edge_index))
Conv1 ==
    Step("conv1", "pool1", ConvStatus(net.x, net.edge_index),
         [net EXCEPT !.x = GINConv(net.x, net.edge_index)])

\* g1, x1_pooled, idx1, edge_index1 = self.pool1(edge_index, x1)
Pool1 ==
    /\ net_pc = "pool1"
    /\ \E sc \in [1 .. Len(net.x) -> ScoreLevels] :
         \E idx \in TopKChoices(sc, PoolRatio, Len(net.x)) :
           LET r == CentPool_forward(sc, net.edge_index, net.x, PoolRatio, idx)
           IN Step("pool1", "conv2", r.status,
                   [net EXCEPT !.x = r.h, !.g1 = r.g, !.idx1 = r.idx,
                               !.edge_index1 = r.edge_index])

\* x2 = F.relu(self.conv2(x1_pooled, edge_index1))
Conv2 ==
    Step("conv2", "pool2", ConvStatus(net.x, net.edge_index1),
         [net EXCEPT !.x = GINConv(net.x, net.edge_index1)])

\* _, x2_pooled, idx2, edge_index2 = self.pool2(edge_index1, x2); the
\* CoarsenedAdjacency pool2 returns is bound to _ (kept here as g2 to
\* compare with)
Pool2 ==
    /\ net_pc = "pool2"
    /\ \E sc \in [1 .. Len(net.x) -> ScoreLevels] :
         \E idx \in TopKChoices(sc, PoolRatio, Len(net.x)) :
           LET r == CentPool_forward(sc, net.edge_index1, net.x, PoolRatio, idx)
           IN Step("pool2", "midconv", r.status,
                   [net EXCEPT !.x = r.h, !.g2 = r.g, !.idx2 = r.idx,
                               !.edge_index2 = r.edge_index])

\* x_m = F.relu(self.midconv(x2_pooled, edge_index2))
MidConv ==
    Step("midconv", "unpool2", ConvStatus(net.x, net.edge_index2),
         [net EXCEPT !.x = GINConv(net.x, net.edge_index2)])

\* x_d2 = self.unpool2(g1, x_m, idx2)
Unpool2 ==
    /\ net_pc = "unpool2"
    /\ \E w \in UnpoolChoices(unpool2_g(net), net.x, net.idx2) :
         LET r == UnpoolOf(net.model, unpool2_g(net), net.x, net.idx2, w)
         IN Step("unpool2", "decoder2", r.status,
                 [net EXCEPT !.x = r.new_h,
                             !.unpool2 = [g |-> unpool2_g(net), idx |-> net.idx2]])

\* x_d2 = F.relu(self.decoder2(x_d2, edge_index2))
Decoder2 ==
    Step("decoder2", "unpool1", ConvStatus(net.x, net.edge_index2),
         [net EXCEPT !.x = GINConv(net.x, net.edge_index2)])

\* x_d1 = self.unpool1(adjacency_matrix(edge_index), x_d2, idx1)
Unpool1 ==
    /\ net_pc = "unpool1"
    /\ IF unpool1_g_status(net) # "ok"
       THEN Step("unpool1", "decoder1", unpool1_g_status(net), net)
       ELSE \E w \in UnpoolChoices(unpool1_g(net), net.x, net.idx1) :
               LET r == UnpoolOf(net.model, unpool1_g(net), net.x, net.idx1, w)
               IN Step("unpool1", "decoder1", r.status,
                       [net EXCEPT !.x = r.new_h,
                                   !.unpool1 = [g |-> unpool1_g(net), idx |-> net.idx1]])

\* x_d1 = F.relu(self.decoder1(x_d1)), a Linear
Decoder1 ==
    Step("decoder1", "readout", "ok", [net EXCEPT !.x = Linear(net.x)])

\* global_mean_pool(x_d1, batch): the batch vector is expanded over the rows
\* of x_d1, which raises unless there is one row per entry of batch
Readout ==
    Step("readout", "done",
         IF Len(net.x) = net.batch THEN "ok" ELSE "RuntimeError", net)

NextNet ==
    \/ Conv1 \/ Pool1 \/ Conv2 \/ Pool2 \/ MidConv
    \/ Unpool2 \/ Decoder2 \/ Unpool1 \/ Decoder1 \/ Readout

SpecNet == InitNet /\ [][NextNet]_vars

--------------------------------------------------------------------------
(* Properties of one pooling stage, checked under SpecPool *)

PoolReturned(op) == pool_pc = "returned" /\ pool_ret.op = op
PoolOk(op) == PoolReturned(op) /\ pool_ret.out.status = "ok"

IdxWellFormed(idx, n) ==
    IsDistinct(idx) /\ \A j \in 1 .. Len(idx) : idx[j] \in Range(n)

\* C1 as stated, on the graphs with at least two nodes: top_k_pool returns
\* exactly max(2, round(r * N)) indices, pairwise distinct and all in [0, N)
C1_RoundedCount ==
    (PoolReturned("top_k_pool") /\ Len(h) >= 2) =>
        /\ pool_ret.out.status = "ok"
        /\ Len(pool_ret.out.idx) = Max(2, Round(ratio, Len(h)))
        /\ IdxWellFormed(pool_ret.out.idx, Len(h))

\* C1 amended: with N >= 2 nodes top_k_pool returns exactly
\* max(2, int(r * N)) indices (the product truncated toward zero), pairwise
\* distinct and all in [0, N); with N = 1 torch.topk raises and nothing is
\* returned
C1_TruncatedCount ==
    PoolReturned("top_k_pool") =>
        IF Len(h) >= 2
        THEN /\ pool_ret.out.status = "ok"
             /\ Len(pool_ret.out.idx) = Max(2, (ratio[1] * Len(h)) \div ratio[2])
             /\ IdxWellFormed(pool_ret.out.idx, Len(h))
        ELSE pool_ret.out.status = "RuntimeError"

\* top_k_pool returned for a ratio and node count where rounding and
\* truncation differ
C1_Witness ==
    /\ PoolOk("top_k_pool")
    /\ Max(2, Round(ratio, Len(h))) # Max(2, (ratio[1] * Len(h)) \div ratio[2])
    /\ Len(pool_ret.out.idx) < Len(h)

RowNonZero(row) == \E j \in 1 .. Len(row) : row[j] # 0
NumSum(row) == SumSeq([j \in 1 .. Len(row) |-> row[j][1]])

\* C4: in the CoarsenedAdjacency of top_k_pool every row that had a nonzero
\* entry before normalization sums to 1 within 1e-8, every row that was
\* all-zero stays all-zero, and no divisor is zero (no nan, no inf)
C4_RowsNormalized ==
    (PoolOk("top_k_pool") \/ PoolOk("CentPool.forward")) =>
        \A i \in 1 .. Len(pool_ret.out.g) :
            LET row == pool_ret.out.g[i]
                before == pool_ret.out.un_g[i]
                den == row[1][2]
            IN /\ \A j \in 1 .. Len(row) : row[j][2] = den /\ den > 0
               /\ IF RowNonZero(before)
                  THEN /\ NumSum(row) <= den
                       /\ (den - NumSum(row)) * EpsInv <= den
                  ELSE \A j \in 1 .. Len(row) : row[j][1] = 0

\* a CoarsenedAdjacency holding both a row that was all-zero and a row that
\* had a nonzero entry before normalization
C4_Witness ==
    /\ PoolOk("top_k_pool")
    /\ \E i \in 1 .. Len(pool_ret.out.un_g) : RowNonZero(pool_ret.out.un_g[i])
    /\ \E i \in 1 .. Len(pool_ret.out.un_g) : ~RowNonZero(pool_ret.out.un_g[i])

\* some node of the input graph has degree 0
HasIsolatedNode ==
    \E i \in 1 .. Len(h) : Degree(adjacency_matrix(edge_index, Len(h)), i) = 0

\* C6 as stated: the spectral variant, given a graph with a node of degree 0,
\* fails with a SingularDegree error
C6_SingularDegree ==
    ((PoolReturned("SpectPool.forward") \/ PoolReturned("normalized_laplacian"))
        /\ HasIsolatedNode) => pool_ret.out.status = "SingularDegree"

\* C9 as stated: the edge list a pooling stage returns holds exactly the
\* input edges whose two endpoints are both in the SelectionIndex
C9_EdgesRestricted ==
    PoolOk("CentPool.forward") =>
        SeqRange(pool_ret.out.edge_index) =
            {e \in SeqRange(edge_index) :
                e[1] \in SeqRange(pool_ret.out.idx) /\ e[2] \in SeqRange(pool_ret.out.idx)}

--------------------------------------------------------------------------
(* Properties of one unpooling call, checked under SpecUnpool *)

UnpoolReturned(op) == un_pc = "returned" /\ un_ret.op = op
UnpoolOk(op) == UnpoolReturned(op) /\ un_ret.out.status = "ok"

\* the rows of the target that idx does not select
Dropped == Range(Len(un_g)) \ SeqRange(un_idx)

\* C3: for k pooled rows h and a SelectionIndex of k distinct indices in
\* [0, N), SimpleUnpool returns N rows, row idx[j] equal to h[j] and every
\* row not in idx exactly zero
C3_SimpleUnpoolRoundTrip ==
    (UnpoolReturned("SimpleUnpool") /\ IdxWellFormed(un_idx, Len(un_g))) =>
        /\ un_ret.out.status = "ok"
        /\ Len(un_ret.out.new_h) = Len(un_g)
        /\ \A j \in 1 .. Len(un_idx) : At(un_ret.out.new_h, un_idx[j]) = un_h[j]
        /\ \A i \in Dropped : At(un_ret.out.new_h, i) = 0

\* SimpleUnpool returned for a SelectionIndex that is not in ascending row
\* order and leaves a row out
C3_Witness ==
    /\ UnpoolOk("SimpleUnpool")
    /\ IdxWellFormed(un_idx, Len(un_g))
    /\ Len(un_idx) >= 2 /\ un_idx[1] > un_idx[2]
    /\ Dropped # {}

\* C5 as stated: both Unpool variants fail with an index error, and return
\* nothing, whenever some SelectionIndex value is >= N or < 0
C5_IndexOutOfRange ==
    ((UnpoolReturned("SimpleUnpool") \/ UnpoolReturned("Unpool"))
        /\ \E j \in 1 .. Len(un_idx) : un_idx[j] >= Len(un_g) \/ un_idx[j] < 0)
    => un_ret.out.status = "IndexError"

\* C10 as stated: the structural Unpool writes the rows of the
\* SelectionIndex back unchanged and its synthesis loop runs over exactly
\* the dropped indices
C10_SynthesizesDropped ==
    (UnpoolOk("Unpool") /\ IdxWellFormed(un_idx, Len(un_g))) =>
        /\ \A j \in 1 .. Len(un_idx) : At(un_ret.out.new_h, un_idx[j]) = un_h[j]
        /\ SeqRange(un_ret.out.idx_prime) = Dropped

--------------------------------------------------------------------------
(* Properties of all_centralities, checked under SpecCent *)

\* C2 as stated: whatever order the workers finish in, column j of the
\* returned matrix holds the j-th configured centrality metric
C2_ColumnsInConfiguredOrder ==
    (main_pc = "returned" /\ \A m \in DOMAIN worker : worker[m] = "exited") =>
        /\ cent_ret.status = "ok"
        /\ cent_ret.C = [j \in 1 .. Len(centrality_methods(variant)) |->
                            Column(centrality_methods(variant)[j])]

Terminated(m) == worker[m] \in {"exited", "crashed"}
SomeWorkerCrashed == \E m \in DOMAIN worker : worker[m] = "crashed"

\* the parent is past its joins: draining the queue, stacking, or in
\* CentPool.forward at or after structure_proj
AssemblyStarted == main_pc \in {"drain", "returned", "scored", "failed"}

\* C11: assembly of the structural feature matrix and the scoring after it
\* start only when every worker process has terminated; and when a worker
\* crashed before its put, the pass never gets to the scores: methods.py
\* raises KeyError in all_centralities, models.py stacks the columns that
\* did arrive and structure_proj raises on their number, so scoring is
\* reached only with all four columns
C11_JoinBarrier ==
    /\ AssemblyStarted => \A m \in DOMAIN worker : Terminated(m)
    /\ SomeWorkerCrashed => main_pc # "scored"
    /\ (SomeWorkerCrashed /\ main_pc = "returned" /\ variant = "methods") =>
          cent_ret.status = "KeyError"
    /\ main_pc = "scored" => Len(cent_ret.C) = StructureInFeatures

\* a pass of CentPool.forward that failed at structure_proj on the three
\* columns left after one worker crashed
C11_Witness ==
    /\ main_pc = "failed"
    /\ variant = "models"
    /\ SomeWorkerCrashed
    /\ cent_ret.status = "ok"
    /\ Len(cent_ret.C) = StructureInFeatures - 1

--------------------------------------------------------------------------
(* Properties of the forward pass, checked under SpecNet *)

\* the stage of section 4.6 each statement of forward() belongs to
StageOf(pc) ==
    CASE pc \in {"conv1", "pool1"} -> "Encoding(0)"
      [] pc \in {"conv2", "pool2"} -> "Encoding(1)"
      [] pc = "midconv" -> "Bottleneck"
      [] pc \in {"unpool2", "decoder2"} -> "Decoding(1)"
      [] pc \in {"unpool1", "decoder1"} -> "Decoding(0)"
      [] pc \in {"readout", "done"} -> "Done"
      [] OTHER -> "Failed"

StageOrder ==
    <<"Encoding(0)", "Encoding(1)", "Bottleneck", "Decoding(1)", "Decoding(0)", "Done">>

StagePos(st) == CHOOSE p \in 1 .. Len(StageOrder) : StageOrder[p] = st

\* a step stays in its stage, enters the next stage of the order, or aborts
StagesInOrder ==
    \/ net_pc' = "failed"
    \/ StageOf(net_pc') = StageOf(net_pc)
    \/ StagePos(StageOf(net_pc')) = StagePos(StageOf(net_pc)) + 1

Unpool2Done == net_pc \in {"decoder2", "unpool1", "decoder1", "readout", "done"}
Unpool1Done == net_pc \in {"decoder1", "readout", "done"}

\* C7 as stated: the node feature matrix after the last decoding stage has
\* one row per entry of the batch-assignment vector, for every input graph
C7_RestoredNodeCount ==
    net_pc \in {"readout", "done"} => Len(net.x) = net.batch

====
